---------------------------- MODULE Spec2Model ----------------------------
(***************************************************************************)
(* Two GitHub Actions scripts of the repository, as one state machine:     *)
(*                                                                         *)
(*   - the LinkBot notifier (.github/scripts/bot-pr-missing-linked-issue.js)*)
(*     which reminds a pull request's author to link an issue;             *)
(*   - the unassign bot (unnamed/part_000), which lets an assignee remove  *)
(*     themselves from an issue by commenting "/unassign".                 *)
(*                                                                         *)
(* The state is GitHub's side of the conversation (comment threads, the    *)
(* issue's assignees, the events waiting for a run) and, per invocation,   *)
(* the position of the async handler between two awaited API calls.        *)
(* Each action is the code of a handler from one await to the next; an     *)
(* awaited call either resolves or rejects.                                *)
(*                                                                         *)
(* Text is modelled as a sequence of tokens; a token is a string standing  *)
(* for itself ("Fixes", "#", "1", " "), and the text is the concatenation  *)
(* of its tokens.  The regular expressions are evaluated on these          *)
(* sequences the way the JavaScript engine evaluates them on the text.     *)
(***************************************************************************)
EXTENDS Naturals, Sequences, FiniteSets

\* ------------------------------------------------------------------ bounds

\* Invocation slots.  Spec runs invocations one after the other, in slot 1.
NProcs == 2
\* Comments one un-paginated listComments call returns (GitHub's default is
\* 30 per page; scaled down).
PerPage == 2
\* Comments the bot may add to one thread before the model stops starting runs.
MaxBotComments == 2
\* Issue comments users may write in one behaviour.
MaxUserComments == 2
\* issue_comment events that may wait for their run at one time.
MaxPending == 1

\* Tokens in a comment body given to commentRequestsUnassign on its own.
MaxBodyLen == 3

Procs == 1..NProcs
PRNumbers == {1, 2}
IssueNumber == 7

\* ------------------------------------------------------------------- values

\* JavaScript's undefined / null.
NULL == "null"
\* An absent text (comment.body or prData.body undefined or null).
NullText == <<NULL>>

LINKBOT_MARKER == "<!-- LinkBot Missing Issue -->"

BotLogin == "github-actions[bot]"

\* ----------------------------------------------------------- text functions

\* String.prototype.toLowerCase on one token (the /i flag of both regexes).
ToLowerCase(t) ==
    CASE t = "Fixes" -> "fixes"
      [] t = "FIXES" -> "fixes"
      [] t = "Closes" -> "closes"
      [] t = "RESOLVES" -> "resolves"
      [] t = "/UNASSIGN" -> "/unassign"
      [] t = "/Unassign" -> "/unassign"
      [] OTHER -> t

\* \s
IsSpace(t) == t \in {" ", "\n", "\t"}

\* \d
IsDigit(t) == t \in {"0", "1", "2", "3"}

\* \w at the edge of a token: letters, digits and "_" (tokens that are words
\* begin and end with a letter).
IsWord(t) ==
    \/ IsDigit(t)
    \/ t \in {"x", "y", "_", "me", "please", "fix"}
    \/ ToLowerCase(t) \in {"fixes", "closes", "resolves"}

\* String.prototype.includes(marker), the marker being one token.
Includes(body, marker) == \E i \in 1..Len(body) : body[i] = marker

\* comment.body?.includes(marker): undefined (falsy) for an absent body.
BodyIncludes(body, marker) == body # NullText /\ Includes(body, marker)

\* The position after \s* applied at position i.
RECURSIVE SkipSpaces(_, _)
SkipSpaces(s, i) ==
    IF i <= Len(s) /\ IsSpace(s[i]) THEN SkipSpaces(s, i + 1) ELSE i

\* \s*:?\s*(#\d+) matched at position i.  Every backtracking choice of the
\* engine but the greedy one fails: after \s* the next token must be ":" or
\* "#", neither of which is white space.  The optional tail (\s*,\s*#\d+)*
\* never decides test().
IssueRefAt(s, i) ==
    LET a == SkipSpaces(s, i)
        b == IF a <= Len(s) /\ s[a] = ":" THEN a + 1 ELSE a
        c == SkipSpaces(s, b)
    IN  /\ c + 1 <= Len(s)
        /\ s[c] = "#"
        /\ IsDigit(s[c + 1])

\* \b before the token at position i, which begins with a word character.
WordBoundaryBefore(s, i) == i = 1 \/ ~IsWord(s[i - 1])

\* Mutant of RegexTest: the pattern anchored at the start of the body (^ for \b).
MutRegexAnchored(body) ==
    /\ Len(body) >= 1
    /\ ToLowerCase(body[1]) \in {"fixes", "closes", "resolves"}
    /\ IssueRefAt(body, 2)

\* /\b(Fixes|Closes|Resolves)\s*:?\s*(#\d+)(\s*,\s*#\d+)*/i .test(body)
RegexTest(body) ==
    \E i \in 1..Len(body) :
        /\ ToLowerCase(body[i]) \in {"fixes", "closes", "resolves"}
        /\ WordBoundaryBefore(body, i)
        /\ IssueRefAt(body, i + 1)

\* ------------------------------------------------------------ shared state

VARIABLES
    script,       \* which of the two scripts the workflow at hand runs
    prThread,     \* PR number -> the PR's comments, oldest first
    nrun,         \* slot -> the notifier invocation in it
    issue,        \* the issue on GitHub: its assignees
    issueThread,  \* the issue's comments, oldest first
    events,       \* issue_comment payloads waiting for their run
    urun,         \* slot -> the unassign invocation in it
    removed,      \* login -> removeAssignees calls that succeeded for it
    written       \* issue comments written by users so far

vars == <<script, prThread, nrun, issue, issueThread, events, urun, removed,
          written>>

nvars == <<prThread, nrun>>
uvars == <<issue, issueThread, events, urun, removed, written>>

\* A call the invocation awaited: the endpoint, its issue_number (or
\* pull_number), its assignees argument and whether it resolved.
Call(api, number, assignees, ok) ==
    [api |-> api, number |-> number, assignees |-> assignees, ok |-> ok]

IsMutating(c) == c.api \in {"createComment", "removeAssignees"}

\* A comment of a thread.
Comment(login, type, body) == [login |-> login, type |-> type, body |-> body]

\* Mutant of Thrown: the catch block logs and swallows the error.
MutErrorSwallowed(r) == [r EXCEPT !.pc = "returned"]

\* catch (error) { console.error(...); throw error; }  in both handlers: the
\* invocation ends rejected.
Thrown(r) == [r EXCEPT !.pc = "threw"]

\* An awaited call rejected: the error lands in the catch block.
Rejected(r, call) == Thrown([r EXCEPT !.calls = Append(@, call)])

\* An awaited call resolved.
Resolved(r, call) == [r EXCEPT !.calls = Append(@, call)]

\* ------------------------------------------------------- LinkBot notifier

NoUser == [type |-> NULL, login |-> NULL]

\* prData.user of the pull requests considered.
Authors ==
    { [type |-> "User", login |-> "alice"],
      [type |-> "Bot", login |-> "renovate"],
      [type |-> "User", login |-> "dependabot[bot]"],
      NoUser }

\* String.prototype.endsWith('[bot]') on the logins of the model.
EndsWithBotSuffix(login) == login \in {"dependabot[bot]", BotLogin}

\* Mutant of IsBotAuthor: the login's suffix is not looked at.
MutBotByTypeOnly(user) == user.type = "Bot"

\* authorType === "Bot" || authorLogin?.endsWith('[bot]')
IsBotAuthor(user) ==
    \/ user.type = "Bot"
    \/ (user.login # NULL /\ EndsWithBotSuffix(user.login))

\* What may stand before and after the core of a PR body.
BodyPrefixes == { <<>>, <<"x">>, <<"1">>, <<" ">> }
BodySuffixes == { <<>>, <<"3">> }
BodyCores ==
    { <<>>,
      <<"Fixes", " ", "#", "1", "2">>,
      <<"closes", ":", " ", "#", "3">>,
      <<"RESOLVES", " ", "1", "2">> }

\* prData.body of the pull requests considered.
PRBodies ==
    { NullText } \cup
    { p \o c \o s : p \in BodyPrefixes, c \in BodyCores, s \in BodySuffixes }

\* No pull_request in the payload.
NoPR == [number |-> 0, body |-> NullText, user |-> NoUser]

PullRequests == [number : PRNumbers, body : PRBodies, user : Authors]

IdleN ==
    [pc |-> "idle", dryRun |-> FALSE, prNumber |-> 0, prData |-> NoPR,
     calls |-> <<>>]

\* const body = prData.body || "";
BodyOf(prData) == IF prData.body = NullText THEN <<>> ELSE prData.body

\* const safeAuthor = authorLogin ?? 'there';  and the templated comment,
\* which begins with the marker.
CommentBody(prData) ==
    <<LINKBOT_MARKER, "Hi @",
      IF prData.user.login = NULL THEN "there" ELSE prData.user.login,
      ", this is **LinkBot**">>

\* github.rest.issues.listComments without page or per_page: the first page.
FirstPage(thread) == SubSeq(thread, 1, IF Len(thread) < PerPage THEN Len(thread) ELSE PerPage)

\* comments.data.some(comment => comment.body?.includes(LINKBOT_MARKER))
alreadyCommented(comments) ==
    \E i \in 1..Len(comments) : BodyIncludes(comments[i].body, LINKBOT_MARKER)

\* Comments of a thread that the notifier posted.
NotifierComments(thread) ==
    { i \in 1..Len(thread) :
        thread[i].login = BotLogin /\ BodyIncludes(thread[i].body, LINKBOT_MARKER) }

\* The invocation once prData is known, up to the listComments call.
WithPrData(r, prData) ==
    IF IsBotAuthor(prData.user)
    THEN [r EXCEPT !.prData = prData, !.pc = "returned"]
    ELSE [r EXCEPT !.prData = prData, !.pc = "listComments"]

\* No slot holds an invocation: runs do not overlap.
NoneInFlight == \A q \in Procs : nrun[q].pc = "idle" /\ urun[q].pc = "idle"

\* Room left for the bot's comments on every PR thread.
ThreadsHaveRoom ==
    \A n \in PRNumbers : Cardinality(NotifierComments(prThread[n])) < MaxBotComments

\* The workflow starts the script: DRY_RUN, PR_NUMBER and the event payload
\* are its inputs.  prNumber = Number(PR_NUMBER) || payload.pull_request?.number
NStartWith(p, dry, env, pl) ==
    /\ script = "linkbot"
    /\ nrun[p].pc = "idle"
    /\ ThreadsHaveRoom
    /\ LET prNumber == IF env # 0 THEN env ELSE pl.number
           r == [IdleN EXCEPT !.dryRun = dry, !.prNumber = prNumber]
       IN  nrun' = [nrun EXCEPT ![p] =
               IF prNumber = 0 THEN Thrown(r)
               ELSE IF pl # NoPR THEN WithPrData(r, pl)
               ELSE [r EXCEPT !.pc = "pulls.get"]]
    /\ UNCHANGED <<script, prThread, uvars>>

\* A run on any event: with or without PR_NUMBER, with or without a
\* pull_request in the payload.
NStart(p) ==
    \E dry \in BOOLEAN, env \in {0} \cup PRNumbers, pl \in {NoPR} \cup PullRequests :
        NStartWith(p, dry, env, pl)

\* await github.rest.pulls.get(...): the PR as GitHub holds it, or an error.
NGet(p) ==
    /\ nrun[p].pc = "pulls.get"
    /\ LET r == nrun[p]
           n == r.prNumber
       IN  \/ \E body \in PRBodies, user \in Authors :
                nrun' = [nrun EXCEPT ![p] =
                    WithPrData(
                        Resolved(r, Call("pulls.get", n, <<>>, TRUE)),
                        [number |-> n, body |-> body, user |-> user])]
           \/ nrun' = [nrun EXCEPT ![p] =
                    Rejected(r, Call("pulls.get", n, <<>>, FALSE))]
    /\ UNCHANGED <<script, prThread, uvars>>

\* Mutant of AfterListComments: the body is not tested against the pattern.
MutRegexNotTested(r, comments) ==
    IF alreadyCommented(comments) THEN [r EXCEPT !.pc = "returned"]
    ELSE IF r.dryRun THEN [r EXCEPT !.pc = "returned"]
    ELSE [r EXCEPT !.pc = "createComment"]

\* Mutant of AfterListComments: the DRY_RUN branch is missing.
MutDryRunIgnored(r, comments) ==
    IF alreadyCommented(comments) THEN [r EXCEPT !.pc = "returned"]
    ELSE IF ~RegexTest(BodyOf(r.prData)) THEN [r EXCEPT !.pc = "createComment"]
    ELSE [r EXCEPT !.pc = "returned"]

\* The code after listComments resolved, up to the next await or the return.
AfterListComments(r, comments) ==
    IF alreadyCommented(comments) THEN [r EXCEPT !.pc = "returned"]
    ELSE IF ~RegexTest(BodyOf(r.prData))
         THEN IF r.dryRun THEN [r EXCEPT !.pc = "returned"]
              ELSE [r EXCEPT !.pc = "createComment"]
         ELSE [r EXCEPT !.pc = "returned"]

\* await github.rest.issues.listComments(...)
NList(p) ==
    /\ nrun[p].pc = "listComments"
    /\ LET r == nrun[p]
           n == r.prNumber
       IN  \/ nrun' = [nrun EXCEPT ![p] =
                    AfterListComments(
                        Resolved(r, Call("listComments", n, <<>>, TRUE)),
                        FirstPage(prThread[n]))]
           \/ nrun' = [nrun EXCEPT ![p] =
                    Rejected(r, Call("listComments", n, <<>>, FALSE))]
    /\ UNCHANGED <<script, prThread, uvars>>

\* Mutant of NCreate: the reminder is posted twice.
MutReminderPostedTwice(p) ==
    /\ nrun[p].pc = "createComment"
    /\ LET r == nrun[p]
           n == r.prNumber
           reminder == Comment(BotLogin, "Bot", CommentBody(r.prData))
       IN  \/ /\ prThread' = [prThread EXCEPT ![n] = @ \o <<reminder, reminder>>]
              /\ nrun' = [nrun EXCEPT ![p] =
                    [Resolved(r, Call("createComment", n, <<>>, TRUE)) EXCEPT !.pc = "returned"]]
           \/ /\ nrun' = [nrun EXCEPT ![p] =
                    Rejected(r, Call("createComment", n, <<>>, FALSE))]
              /\ UNCHANGED prThread
    /\ UNCHANGED <<script, uvars>>

\* await github.rest.issues.createComment(...)
NCreate(p) ==
    /\ nrun[p].pc = "createComment"
    /\ LET r == nrun[p]
           n == r.prNumber
       IN  \/ /\ prThread' = [prThread EXCEPT ![n] =
                    Append(@, Comment(BotLogin, "Bot", CommentBody(r.prData)))]
              /\ nrun' = [nrun EXCEPT ![p] =
                    [Resolved(r, Call("createComment", n, <<>>, TRUE)) EXCEPT !.pc = "returned"]]
           \/ /\ nrun' = [nrun EXCEPT ![p] =
                    Rejected(r, Call("createComment", n, <<>>, FALSE))]
              /\ UNCHANGED prThread
    /\ UNCHANGED <<script, uvars>>

\* The promise has settled and the job has ended: the slot is free again.
NEnd(p) ==
    /\ nrun[p].pc \in {"returned", "threw"}
    /\ nrun' = [nrun EXCEPT ![p] = IdleN]
    /\ UNCHANGED <<script, prThread, uvars>>

\* Comments users left on a PR before the workflow was installed: plain
\* ones, and ones that quote the marker.
UserPRComments ==
    { Comment("alice", "User", <<"LGTM">>),
      Comment("bob", "User", <<"see", " ", LINKBOT_MARKER>>) }

RECURSIVE SeqsUpTo(_, _)
SeqsUpTo(S, n) ==
    IF n = 0 THEN { <<>> }
    ELSE LET shorter == SeqsUpTo(S, n - 1)
         IN  shorter \cup { Append(s, x) : s \in shorter, x \in S }

\* ----------------------------------------------------------- unassign bot

Users == {"alice", "bob"}

\* function buildUnassignMarker(username)
buildUnassignMarker(username) == "<!-- unassign-requested:" \o username \o " -->"

\* The issue object of a payload; number 0 stands for a payload without one.
Issue(number, pr, state, assignees) ==
    [number |-> number, pull_request |-> pr, state |-> state,
     assignees |-> assignees]

NoIssue == Issue(0, FALSE, NULL, {})

\* Mutant of isValidUnassignContext: the issue's state is not looked at.
MutIgnoresIssueState(i, c) ==
    IF i.number = 0 \/ i.pull_request THEN FALSE
    ELSE IF c.body \in {NullText, <<>>} \/ c.login \in {NULL, ""} THEN FALSE
    ELSE IF c.type = "Bot" THEN FALSE
    ELSE TRUE

\* function isValidUnassignContext(issue, comment)
isValidUnassignContext(i, c) ==
    IF i.number = 0 \/ i.pull_request THEN FALSE
    ELSE IF c.body \in {NullText, <<>>} \/ c.login \in {NULL, ""} THEN FALSE
    ELSE IF c.type = "Bot" THEN FALSE
    ELSE IF i.state # "open" THEN FALSE
    ELSE TRUE

\* Mutant of commentRequestsUnassign: word boundaries for the white space,
\* /(^|\W)\/unassign(\W|$)/i
MutUnassignWordBoundary(body) ==
    /\ body # NullText
    /\ \E k \in 1..Len(body) :
          /\ ToLowerCase(body[k]) = "/unassign"
          /\ (k = 1 \/ ~IsWord(body[k - 1]))
          /\ (k = Len(body) \/ ~IsWord(body[k + 1]))

\* function commentRequestsUnassign(body):
\*   typeof body === 'string' && /(^|\s)\/unassign(\s|$)/i.test(body)
commentRequestsUnassign(body) ==
    /\ body # NullText
    /\ \E k \in 1..Len(body) :
          /\ ToLowerCase(body[k]) = "/unassign"
          /\ (k = 1 \/ IsSpace(body[k - 1]))
          /\ (k = Len(body) \/ IsSpace(body[k + 1]))

\* Mutant of isCurrentAssignee: every commenter passes.
MutAnyoneMayUnassign(i, username) == TRUE

\* function isCurrentAssignee(issue, username): the payload's issue.
isCurrentAssignee(i, username) == username \in i.assignees

\* comments.some(c => typeof c.body === 'string' && c.body.includes(marker))
alreadyUnassigned(comments, marker) ==
    \E k \in 1..Len(comments) : BodyIncludes(comments[k].body, marker)

\* Mutant of ConfirmationBody: the hidden marker is left out.
MutConfirmationWithoutMarker(username) ==
    <<"@", username, ", you have been unassigned from this issue.">>

\* The confirmation comment: `${marker}\n\n${confirmationMessage}`
ConfirmationBody(username) ==
    <<buildUnassignMarker(username), "\n", "\n", "@", username,
      ", you have been unassigned from this issue.">>

\* Confirmations the bot posted for a user.
Confirmations(thread, username) ==
    { k \in 1..Len(thread) :
        /\ thread[k].login = BotLogin
        /\ BodyIncludes(thread[k].body, buildUnassignMarker(username)) }

\* What users write on the issue.
IssueBodies ==
    { <<"please", " ", "/unassign", " ", "me">>,
      <<"/unassign", ".">>,
      <<"/UNASSIGN", "\n", buildUnassignMarker("alice")>> }

Payload(i, c) == [issue |-> i, comment |-> c]

\* issue_comment payloads that are not about a user's comment on the open
\* issue: no issue, a comment on a pull request, a comment without body or
\* author, a comment written by a bot account, a comment on the closed issue.
\* The handler reads the issue's state from the payload only.
OtherPayloads ==
    { Payload(i, c) :
        i \in { Issue(IssueNumber, FALSE, "open", {"alice", "renovate"}) },
        c \in { Comment(NULL, NULL, NullText),
                Comment("alice", "User", <<>>),
                Comment(NULL, "User", <<"/unassign">>),
                Comment("renovate", "Bot", <<"/unassign">>) } }
    \cup
    { Payload(i, Comment("alice", "User", <<"/unassign">>)) :
        i \in { NoIssue,
                Issue(11, TRUE, "open", {"alice"}),
                Issue(IssueNumber, FALSE, "closed", {"alice"}),
                Issue(IssueNumber, FALSE, "closed", {}) } }

IdleU ==
    [pc |-> "idle", payload |-> Payload(NoIssue, Comment(NULL, NULL, NullText)),
     comments |-> <<>>, calls |-> <<>>]

\* A user writes a comment on the open issue: GitHub stores it and queues an
\* issue_comment event whose payload is the issue as it is now.
UComment ==
    /\ script = "unassign"
    /\ written < MaxUserComments
    /\ Len(events) < MaxPending
    /\ \E u \in Users, body \in IssueBodies :
          LET c == Comment(u, "User", body)
          IN  /\ issueThread' = Append(issueThread, c)
              /\ events' = Append(events,
                     Payload(Issue(IssueNumber, FALSE, "open", issue.assignees), c))
    /\ written' = written + 1
    /\ UNCHANGED <<script, nvars, issue, urun, removed>>

\* A maintainer assigns a user to the issue.
UAssign ==
    /\ script = "unassign"
    /\ \E u \in Users \ issue.assignees :
          issue' = [issue EXCEPT !.assignees = @ \cup {u}]
    /\ UNCHANGED <<script, nvars, issueThread, events, urun, removed, written>>

\* A maintainer removes a user from the issue by hand.
UUnassign ==
    /\ script = "unassign"
    /\ \E u \in issue.assignees :
          issue' = [issue EXCEPT !.assignees = @ \ {u}]
    /\ UNCHANGED <<script, nvars, issueThread, events, urun, removed, written>>

\* Mutant of BeforePaginate: the assignee check is missing.
MutBeforePaginateNoAssigneeCheck(r) ==
    LET i == r.payload.issue
        c == r.payload.comment
    IN  IF ~isValidUnassignContext(i, c) THEN [r EXCEPT !.pc = "returned"]
        ELSE IF ~commentRequestsUnassign(c.body) THEN [r EXCEPT !.pc = "returned"]
        ELSE [r EXCEPT !.pc = "paginate"]

\* The handler from its first line to the paginate call.
BeforePaginate(r) ==
    LET i == r.payload.issue
        c == r.payload.comment
    IN  IF ~isValidUnassignContext(i, c) THEN [r EXCEPT !.pc = "returned"]
        ELSE IF ~commentRequestsUnassign(c.body) THEN [r EXCEPT !.pc = "returned"]
        ELSE IF ~isCurrentAssignee(i, c.login) THEN [r EXCEPT !.pc = "returned"]
        ELSE [r EXCEPT !.pc = "paginate"]

\* The workflow starts the script on a waiting event.
UStart(p) ==
    /\ script = "unassign"
    /\ urun[p].pc = "idle"
    /\ \E k \in 1..Len(events) :
          /\ urun' = [urun EXCEPT ![p] =
                 BeforePaginate([IdleU EXCEPT !.payload = events[k]])]
          /\ events' = SubSeq(events, 1, k - 1) \o SubSeq(events, k + 1, Len(events))
    /\ UNCHANGED <<script, nvars, issue, issueThread, removed, written>>

\* An event of the other kinds arrives and the workflow starts the script on
\* it; nothing on GitHub belongs to such an event.
UStartOther(p) ==
    /\ script = "unassign"
    /\ urun[p].pc = "idle"
    /\ \E pl \in OtherPayloads :
          urun' = [urun EXCEPT ![p] = BeforePaginate([IdleU EXCEPT !.payload = pl])]
    /\ UNCHANGED <<script, nvars, issue, issueThread, events, removed, written>>

\* Mutant of AfterPaginate: the marker scan is skipped.
MutAfterPaginateNoScan(r, comments) ==
    [r EXCEPT !.comments = comments, !.pc = "removeAssignees"]

\* The code after paginate resolved.
AfterPaginate(r, comments) ==
    IF alreadyUnassigned(comments, buildUnassignMarker(r.payload.comment.login))
    THEN [r EXCEPT !.comments = comments, !.pc = "returned"]
    ELSE [r EXCEPT !.comments = comments, !.pc = "removeAssignees"]

\* await github.paginate(github.rest.issues.listComments, ...): every page.
UPaginate(p) ==
    /\ urun[p].pc = "paginate"
    /\ LET r == urun[p]
           n == r.payload.issue.number
       IN  \/ urun' = [urun EXCEPT ![p] =
                    AfterPaginate(
                        Resolved(r, Call("listComments", n, <<>>, TRUE)),
                        issueThread)]
           \/ urun' = [urun EXCEPT ![p] =
                    Rejected(r, Call("listComments", n, <<>>, FALSE))]
    /\ UNCHANGED <<script, nvars, issue, issueThread, events, removed, written>>

\* Mutant of URemove: a rejected removeAssignees is ignored and the handler
\* goes on to the confirmation.
MutRemoveFailureIgnored(p) ==
    /\ urun[p].pc = "removeAssignees"
    /\ LET r == urun[p]
           n == r.payload.issue.number
           username == r.payload.comment.login
       IN  \/ /\ issue' = [issue EXCEPT !.assignees = @ \ {username}]
              /\ removed' = [removed EXCEPT ![username] = @ + 1]
              /\ urun' = [urun EXCEPT ![p] =
                    [Resolved(r, Call("removeAssignees", n, <<username>>, TRUE)) EXCEPT !.pc = "createComment"]]
           \/ /\ urun' = [urun EXCEPT ![p] =
                    [Resolved(r, Call("removeAssignees", n, <<username>>, FALSE)) EXCEPT !.pc = "createComment"]]
              /\ UNCHANGED <<issue, removed>>
    /\ UNCHANGED <<script, nvars, issueThread, events, written>>

\* await github.rest.issues.removeAssignees({..., assignees: [username]})
URemove(p) ==
    /\ urun[p].pc = "removeAssignees"
    /\ LET r == urun[p]
           n == r.payload.issue.number
           username == r.payload.comment.login
       IN  \/ /\ issue' = [issue EXCEPT !.assignees = @ \ {username}]
              /\ removed' = [removed EXCEPT ![username] = @ + 1]
              /\ urun' = [urun EXCEPT ![p] =
                    [Resolved(r, Call("removeAssignees", n, <<username>>, TRUE)) EXCEPT !.pc = "createComment"]]
           \/ /\ urun' = [urun EXCEPT ![p] =
                    Rejected(r, Call("removeAssignees", n, <<username>>, FALSE))]
              /\ UNCHANGED <<issue, removed>>
    /\ UNCHANGED <<script, nvars, issueThread, events, written>>

\* Mutant of UCreate: the confirmation is written over the newest comment of
\* the thread instead of being added to it.
MutConfirmationEditsLast(p) ==
    /\ urun[p].pc = "createComment"
    /\ LET r == urun[p]
           n == r.payload.issue.number
           username == r.payload.comment.login
           confirmation == Comment(BotLogin, "Bot", ConfirmationBody(username))
       IN  \/ /\ issueThread' =
                    IF issueThread = <<>> THEN <<confirmation>>
                    ELSE [issueThread EXCEPT ![Len(issueThread)] = confirmation]
              /\ urun' = [urun EXCEPT ![p] =
                    [Resolved(r, Call("createComment", n, <<>>, TRUE)) EXCEPT !.pc = "returned"]]
           \/ /\ urun' = [urun EXCEPT ![p] =
                    Rejected(r, Call("createComment", n, <<>>, FALSE))]
              /\ UNCHANGED issueThread
    /\ UNCHANGED <<script, nvars, issue, events, removed, written>>

\* await github.rest.issues.createComment({..., body: marker + message})
UCreate(p) ==
    /\ urun[p].pc = "createComment"
    /\ LET r == urun[p]
           n == r.payload.issue.number
           username == r.payload.comment.login
       IN  \/ /\ issueThread' = Append(issueThread,
                    Comment(BotLogin, "Bot", ConfirmationBody(username)))
              /\ urun' = [urun EXCEPT ![p] =
                    [Resolved(r, Call("createComment", n, <<>>, TRUE)) EXCEPT !.pc = "returned"]]
           \/ /\ urun' = [urun EXCEPT ![p] =
                    Rejected(r, Call("createComment", n, <<>>, FALSE))]
              /\ UNCHANGED issueThread
    /\ UNCHANGED <<script, nvars, issue, events, removed, written>>

\* The promise has settled and the job has ended: the slot is free again.
UEnd(p) ==
    /\ urun[p].pc \in {"returned", "threw"}
    /\ urun' = [urun EXCEPT ![p] = IdleU]
    /\ UNCHANGED <<script, nvars, issue, issueThread, events, removed, written>>

\* ------------------------------------------------------------ specification

\* The two scripts belong to two workflows and share no state: a behaviour
\* follows one of them, named by script.  A PR thread may hold comments of
\* users before the notifier first runs, up to one more than a page.

InitLinkBot ==
    /\ script = "linkbot"
    /\ \E t \in SeqsUpTo(UserPRComments, PerPage + 1) :
          prThread = [n \in PRNumbers |-> IF n = 1 THEN t ELSE <<>>]
    /\ issue = [assignees |-> {}]

InitUnassign ==
    /\ script = "unassign"
    /\ prThread = [n \in PRNumbers |-> <<>>]
    /\ issue \in [assignees : SUBSET Users]

Init ==
    /\ InitLinkBot \/ InitUnassign
    /\ nrun = [p \in Procs |-> IdleN]
    /\ urun = [p \in Procs |-> IdleU]
    /\ issueThread = <<>>
    /\ events = <<>>
    /\ removed = [u \in Users |-> 0]
    /\ written = 0

\* One invocation at a time, in slot 1: a run starts when none is in flight.
StartLinkBot == NoneInFlight /\ NStart(1)
StartUnassign == NoneInFlight /\ UStart(1)
StartUnassignOther == NoneInFlight /\ UStartOther(1)

Next ==
    \/ StartLinkBot
    \/ NGet(1)
    \/ NList(1)
    \/ NCreate(1)
    \/ NEnd(1)
    \/ UComment
    \/ UAssign
    \/ UUnassign
    \/ StartUnassign
    \/ StartUnassignOther
    \/ UPaginate(1)
    \/ URemove(1)
    \/ UCreate(1)
    \/ UEnd(1)

Spec == Init /\ [][Next]_vars

\* Overlapping invocations.  GitHub starts one job per event and nothing in
\* the workflows serialises them: while the run of slot 1 is in flight, a
\* second event about the same pull request (or a second comment on the
\* issue) starts a run in slot 2.  Slot 2 holds one such run per behaviour and
\* keeps its record once it has settled.
InFlight(r) == r.pc \notin {"idle", "returned", "threw"}

StartLinkBotOverlapping ==
    /\ InFlight(nrun[1])
    /\ nrun[1].prData # NoPR
    /\ \E dry \in BOOLEAN : NStartWith(2, dry, 0, nrun[1].prData)

StartUnassignOverlapping == InFlight(urun[1]) /\ UStart(2)

Overlapped == nrun[2].pc # "idle" \/ urun[2].pc # "idle"

NextRace ==
    \/ Next
    \/ StartLinkBotOverlapping
    \/ NList(2)
    \/ NCreate(2)
    \/ StartUnassignOverlapping
    \/ UPaginate(2)
    \/ URemove(2)
    \/ UCreate(2)

SpecRace == Init /\ [][NextRace]_vars

\* commentRequestsUnassign on its own.  The bodies are all texts of up to
\* MaxBodyLen tokens, the texts the spec names and the absent body; each is the body of a
\* comment the assignee alice wrote on the open issue, so that the run gets
\* past line 66 exactly when the function returns true.
BodyTokens == {"/unassign", "/UNASSIGN", " ", "\n", ".", "me", "x"}

NamedBodies ==
    { <<"please", " ", "/unassign", " ", "me">>,
      <<"/UNASSIGN">>,
      <<"/unassign", ".">>,
      <<"/unassign", "me">> }

RegexBodies ==
    (SeqsUpTo(BodyTokens, MaxBodyLen) \ { <<>> }) \cup NamedBodies \cup { NullText }

InitRegex ==
    /\ script = "unassign"
    /\ prThread = [n \in PRNumbers |-> <<>>]
    /\ nrun = [p \in Procs |-> IdleN]
    /\ urun = [p \in Procs |-> IdleU]
    /\ issue = [assignees |-> {"alice"}]
    /\ removed = [u \in Users |-> 0]
    /\ written = 1
    /\ \E body \in RegexBodies :
          LET c == Comment("alice", "User", body)
          IN  /\ issueThread = <<c>>
              /\ events = <<Payload(Issue(IssueNumber, FALSE, "open", {"alice"}), c)>>

NextRegex ==
    \/ StartUnassign
    \/ UEnd(1)

SpecRegex == InitRegex /\ [][NextRegex]_vars

\* ------------------------------------------------------------------- claims

HasCall(r, api) == \E k \in 1..Len(r.calls) : r.calls[k].api = api

NoMutatingCall(r) == \A k \in 1..Len(r.calls) : ~IsMutating(r.calls[k])

\* C1 (as the spec states it): runs of the notifier that do not overlap
\* leave at most one reminder of the bot on a PR thread, whatever the thread
\* held before, threads longer than one listComments page included.
C1_OneReminderPerThread ==
    \A n \in PRNumbers : Cardinality(NotifierComments(prThread[n])) <= 1

\* C2: after any sequence of unassign runs that do not overlap, the issue
\* thread holds at most one confirmation of the bot carrying the marker of a
\* given username.
C2_OneConfirmationPerUser ==
    \A u \in Users : Cardinality(Confirmations(issueThread, u)) <= 1

\* C2's case: a confirmation for the user is on the thread, and a later run
\* for the same user, who is assigned again, has stopped at the marker scan.
C2_Witness ==
    \E u \in Users :
        /\ Cardinality(Confirmations(issueThread, u)) = 1
        /\ urun[1].pc = "returned"
        /\ urun[1].payload.comment.login = u
        /\ u \in urun[1].payload.issue.assignees
        /\ urun[1].calls = <<Call("listComments", IssueNumber, <<>>, TRUE)>>

\* C3 (as the header comment states it): removeAssignees succeeds at most
\* once for a username on one issue, over any sequence of runs.
C3_UnassignOncePerUser == \A u \in Users : removed[u] <= 1

\* A payload as C4 describes it: a standalone /unassign from a non-bot user
\* who is an assignee of an open issue that is no pull request.
StandaloneBodies ==
    { <<"please", " ", "/unassign", " ", "me">>,
      <<"/UNASSIGN", "\n", buildUnassignMarker("alice")>> }

RequestByAssignee(pl) ==
    /\ pl.issue.number # 0
    /\ ~pl.issue.pull_request
    /\ pl.issue.state = "open"
    /\ pl.comment.type = "User"
    /\ pl.comment.login \in pl.issue.assignees
    /\ pl.comment.body \in StandaloneBodies

\* C4: a run on such a payload that found no marker of the user and whose
\* calls all succeeded has issued exactly one removeAssignees and one
\* createComment, and the thread then holds one confirmation of the user; a
\* run that found the confirmation on the thread issues no mutating call.
C4_UnassignThenNoOp ==
    \A p \in Procs :
        LET r == urun[p]
            u == r.payload.comment.login
        IN  /\ ( /\ r.pc = "returned"
                 /\ RequestByAssignee(r.payload)
                 /\ ~alreadyUnassigned(r.comments, buildUnassignMarker(u)) )
               => /\ r.calls = << Call("listComments", IssueNumber, <<>>, TRUE),
                                  Call("removeAssignees", IssueNumber, <<u>>, TRUE),
                                  Call("createComment", IssueNumber, <<>>, TRUE) >>
                  /\ Cardinality(Confirmations(issueThread, u)) = 1
            /\ ( r.pc # "idle" /\ u \in Users /\ Confirmations(r.comments, u) # {} )
               => NoMutatingCall(r)

\* C4's case: the user wrote "please /unassign me" twice, the bot confirmed
\* once, and the run on the second comment has returned after listing the
\* comments.
C4_Witness ==
    \E u \in Users :
        LET c == Comment(u, "User", <<"please", " ", "/unassign", " ", "me">>)
        IN  /\ Cardinality({ k \in 1..Len(issueThread) : issueThread[k] = c }) = 2
            /\ Cardinality(Confirmations(issueThread, u)) = 1
            /\ urun[1].pc = "returned"
            /\ urun[1].payload.comment = c
            /\ RequestByAssignee(urun[1].payload)
            /\ Confirmations(urun[1].comments, u) # {}
            /\ urun[1].calls = <<Call("listComments", IssueNumber, <<>>, TRUE)>>

\* In every invocation, each removeAssignees call carries the one-element
\* list holding the commenter's login, and the commenter is in the payload's
\* assignee list; an invocation for a commenter who is not in it has returned
\* without any call.
C5_State ==
    \A p \in Procs :
        LET r == urun[p]
            u == r.payload.comment.login
        IN  /\ \A k \in 1..Len(r.calls) :
                  r.calls[k].api = "removeAssignees"
                  => /\ r.calls[k].assignees = <<u>>
                     /\ u \in r.payload.issue.assignees
            /\ (r.pc # "idle" /\ u \notin r.payload.issue.assignees)
               => (r.calls = <<>> /\ r.pc = "returned")

\* No step of an invocation for a commenter who is not in the payload's
\* assignee list changes the issue's assignees.
C5_Step ==
    \A p \in Procs :
        ( /\ urun'[p] # urun[p]
          /\ urun'[p].pc # "idle"
          /\ urun'[p].payload.comment.login \notin urun'[p].payload.issue.assignees )
        => issue'.assignees = issue.assignees

\* C5: removeAssignees is issued only for a commenter who is in the issue's
\* assignee list, with assignees = [commenter]; a run for a commenter who is
\* not an assignee issues no API call, and none of its steps changes the
\* issue's assignees.
C5_OnlyAssigneeOnlySelf == []C5_State /\ [][C5_Step]_vars

\* C5's case: an assignee asked with "please /unassign me" and the run has
\* called removeAssignees for that one login.
C5_Witness ==
    /\ urun[1].payload.comment.body = <<"please", " ", "/unassign", " ", "me">>
    /\ urun[1].payload.issue.assignees = Users
    /\ HasCall(urun[1], "removeAssignees")
    /\ urun[1].payload.comment.login \notin issue.assignees

\* The payloads the guard chain of C6 turns away.
GuardFails(pl) ==
    \/ pl.issue.number = 0
    \/ pl.issue.pull_request
    \/ pl.comment.body \in {NullText, <<>>}
    \/ pl.comment.login \in {NULL, ""}
    \/ pl.comment.type = "Bot"
    \/ pl.issue.state # "open"

\* C6: a run whose payload has no issue, is about a pull request, has no
\* comment body or author login, is written by a bot or is about an issue
\* that is not open returns normally and issues no API call.
C6_GuardChain ==
    \A p \in Procs :
        (urun[p].pc # "idle" /\ GuardFails(urun[p].payload))
        => (urun[p].pc = "returned" /\ urun[p].calls = <<>>)

\* C6's case: an assignee wrote "/unassign" on the closed issue and the run
\* has returned.
C6_Witness ==
    /\ urun[1].pc = "returned"
    /\ urun[1].payload.issue.state = "closed"
    /\ urun[1].payload.comment.body = <<"/unassign">>
    /\ urun[1].payload.comment.login \in urun[1].payload.issue.assignees

\* C7: a run whose PR is written by a bot (type Bot, or a login ending with
\* [bot]) returns without error and issues neither listComments nor
\* createComment, dry run or not.
C7_BotAuthoredPR ==
    \A p \in Procs :
        LET r == nrun[p]
            user == r.prData.user
        IN  (user.type = "Bot" \/ user.login \in {"dependabot[bot]", BotLogin})
            => /\ r.pc = "returned"
               /\ ~HasCall(r, "createComment")
               /\ ~HasCall(r, "listComments")

\* C7's case: a PR of dependabot[bot] (type User) without a linked issue, on a
\* thread without reminder, DRY_RUN off: the run has returned.
C7_Witness ==
    /\ nrun[1].pc = "returned"
    /\ nrun[1].prData.user = [type |-> "User", login |-> "dependabot[bot]"]
    /\ nrun[1].prData.body = <<>>
    /\ ~nrun[1].dryRun
    /\ prThread[nrun[1].prNumber] = <<>>

\* The text "Fixes #12" at position i of a body.
Fixes12At(body, i) ==
    /\ i + 4 <= Len(body)
    /\ SubSeq(body, i, i + 4) = <<"Fixes", " ", "#", "1", "2">>

\* A run that has issued createComment or is about to.
IssuesCreateComment(r) == r.pc = "createComment" \/ HasCall(r, "createComment")

\* C8 (as stated): a run on a PR body that contains "Fixes #12", whatever
\* precedes or follows it, issues no createComment.
C8_AnyFixes12 ==
    \A p \in Procs :
        (\E i \in 1..Len(nrun[p].prData.body) : Fixes12At(nrun[p].prData.body, i))
        => ~IssuesCreateComment(nrun[p])

\* C8 (amended): a run on a PR body that contains "Fixes #12" at its start
\* or right after a character that is no letter, digit or underscore,
\* whatever follows it, issues no createComment.
C8_Fixes12AtWordStart ==
    \A p \in Procs :
        LET body == nrun[p].prData.body
        IN  (\E i \in 1..Len(body) :
                /\ Fixes12At(body, i)
                /\ (i = 1 \/ body[i - 1] \in {" ", "\n", ".", ":", ",", "#"}))
            => ~IssuesCreateComment(nrun[p])

\* C8's case: " Fixes #123" by a user, DRY_RUN off, on a thread without
\* reminder: the run listed the comments and returned.
C8_Witness ==
    /\ nrun[1].pc = "returned"
    /\ nrun[1].prData.body = <<" ", "Fixes", " ", "#", "1", "2", "3">>
    /\ nrun[1].prData.user.login = "alice"
    /\ ~nrun[1].dryRun
    /\ prThread[nrun[1].prNumber] = <<>>
    /\ nrun[1].calls = <<Call("listComments", nrun[1].prNumber, <<>>, TRUE)>>

\* A step taken while a DRY_RUN invocation is in its slot, or that starts one.
C9_Step ==
    \A p \in Procs :
        (nrun'[p].dryRun \/ nrun[p].dryRun)
        => /\ prThread' = prThread
           /\ ~IssuesCreateComment(nrun'[p])

\* C9: no step taken while a DRY_RUN invocation is in its slot changes a PR
\* thread, and such an invocation never reaches createComment.
C9_DryRunMutatesNothing == [][C9_Step]_vars

\* C9's case: a dry run on a user's PR without linked issue, whose thread has
\* no reminder, has listed the comments and returned.
C9_Witness ==
    /\ nrun[1].pc = "returned"
    /\ nrun[1].dryRun
    /\ nrun[1].prData.user.login = "alice"
    /\ ~RegexTest(BodyOf(nrun[1].prData))
    /\ ~alreadyCommented(FirstPage(prThread[nrun[1].prNumber]))
    /\ nrun[1].calls = <<Call("listComments", nrun[1].prNumber, <<>>, TRUE)>>

\* An invocation in which a call failed has made no call after it and has
\* ended rejected.
StopsAtFailure(r) ==
    \A k \in 1..Len(r.calls) :
        ~r.calls[k].ok => (k = Len(r.calls) /\ r.pc = "threw")

\* C10: in both handlers a failed API call is the invocation's last call, and
\* the invocation ends by throwing, never by returning.
C10_ErrorsPropagate ==
    \A p \in Procs : StopsAtFailure(nrun[p]) /\ StopsAtFailure(urun[p])

\* C10's case: removeAssignees succeeded and createComment then failed.
C10_Witness ==
    /\ urun[1].pc = "threw"
    /\ Len(urun[1].calls) = 3
    /\ urun[1].calls[2].ok
    /\ urun[1].calls[3] = Call("createComment", IssueNumber, <<>>, FALSE)

\* Some thread holds the bot's marker comment twice: two reminders on one PR,
\* or two confirmations for one username on the issue.
DuplicateMarker ==
    \/ \E n \in PRNumbers : Cardinality(NotifierComments(prThread[n])) >= 2
    \/ \E u \in Users : Cardinality(Confirmations(issueThread, u)) >= 2

\* C11: the scan-then-post check of both handlers is not race-free, and
\* overlap is the only way to a duplicate: a thread holds two marker comments
\* of the bot for the same PR (or the same username) only after two
\* invocations overlapped.
C11_DuplicateOnlyByOverlap == DuplicateMarker => Overlapped

\* Two overlapping notifier runs both listed a thread that fits in one page
\* before either posted, and both posted.
C11_Witness ==
    /\ Overlapped
    /\ \E n \in PRNumbers :
          /\ Len(prThread[n]) <= PerPage
          /\ Cardinality(NotifierComments(prThread[n])) = 2

\* The same for the unassign handler: two overlapping runs for one user both
\* posted the confirmation.
C11_WitnessUnassign ==
    /\ Overlapped
    /\ \E u \in Users : Cardinality(Confirmations(issueThread, u)) = 2

\* The run of slot p has passed the assignee check of lines 77-83.
PastAssigneeCheck(r) ==
    r.pc \in {"paginate", "removeAssignees", "createComment"} \/ r.calls # <<>>

\* C12 (as the spec states it): the assignee check reflects the assignees the
\* API holds when the run starts, so a run passes it only for a user who is
\* an assignee of the issue at that moment.
C12_FreshAssignees ==
    [][\A p \in Procs :
          (urun[p].pc = "idle" /\ PastAssigneeCheck(urun'[p]))
              => urun'[p].payload.comment.login \in issue'.assignees]_vars

\* C12 (amended): the assignee check reads the issue object of the event
\* payload; a run gets past it, and so issues removeAssignees and the
\* confirmation, only for a user who is an assignee in that snapshot.
C12_PayloadSnapshot ==
    \A p \in Procs :
        PastAssigneeCheck(urun[p])
            => urun[p].payload.comment.login \in urun[p].payload.issue.assignees

\* A run is about to remove a user who was an assignee when the comment was
\* written and had stopped being one before the run started.
C12_Witness ==
    /\ urun[1].pc = "removeAssignees"
    /\ urun[1].payload.comment.login \in urun[1].payload.issue.assignees
    /\ urun[1].payload.comment.login \notin issue.assignees

\* The body of the PR the run inspected links an issue.
BodyLinksIssue(r) == r.prData # NoPR /\ RegexTest(BodyOf(r.prData))

IssuesListComments(r) == r.pc = "listComments" \/ HasCall(r, "listComments")

\* C13 (as the spec states it): when the PR body matches the pattern the
\* notifier issues neither listComments nor createComment.
C13_NoCallsWhenLinked ==
    \A p \in Procs :
        BodyLinksIssue(nrun[p])
            => ~IssuesListComments(nrun[p]) /\ ~IssuesCreateComment(nrun[p])

\* C13 (amended): listComments comes before the pattern test.  A run on a
\* PR whose body matches issues no createComment; createComment is issued
\* only after listComments resolved; and every run that returns on a PR of
\* a non-bot author has called listComments, matching body or not.
C13_ListBeforeTest ==
    \A p \in Procs :
        LET r == nrun[p]
        IN  /\ BodyLinksIssue(r) => ~IssuesCreateComment(r)
            /\ IssuesCreateComment(r) =>
                   \E k \in 1..Len(r.calls) :
                       r.calls[k].api = "listComments" /\ r.calls[k].ok
            /\ (r.pc = "returned" /\ ~IsBotAuthor(r.prData.user)) =>
                   HasCall(r, "listComments")

\* A run on a PR whose body links an issue listed the comments and returned.
C13_Witness ==
    /\ nrun[1].pc = "returned"
    /\ BodyLinksIssue(nrun[1])
    /\ HasCall(nrun[1], "listComments")

IssuesConfirmation(r) == r.pc = "createComment" \/ HasCall(r, "createComment")

RemoveFailed(r) ==
    \E k \in 1..Len(r.calls) :
        r.calls[k].api = "removeAssignees" /\ ~r.calls[k].ok

\* The confirmation is created only after removeAssignees resolved, and a
\* run whose removeAssignees rejected has thrown without a createComment.
C14_State ==
    \A p \in Procs :
        LET r == urun[p]
        IN  /\ IssuesConfirmation(r) =>
                   \E k \in 1..Len(r.calls) :
                       r.calls[k].api = "removeAssignees" /\ r.calls[k].ok
            /\ RemoveFailed(r) => r.pc = "threw" /\ ~HasCall(r, "createComment")

\* The step on which removeAssignees rejects changes neither the thread nor
\* the assignees: what a later /unassign of the user will find is what this
\* run found.
C14_Step ==
    \A p \in Procs :
        (urun[p].pc = "removeAssignees" /\ urun'[p].pc = "threw")
            => issueThread' = issueThread /\ issue' = issue

\* C14: the confirmation comment is created only after removeAssignees
\* returned successfully; if removeAssignees fails, no confirmation is posted
\* and the thread holds no new marker, so a later /unassign of the same user
\* is still processed.
C14_ConfirmAfterRemove == []C14_State /\ [][C14_Step]_vars

\* removeAssignees rejected: the run threw, and the thread still holds no
\* marker of the user who asked.
C14_Witness ==
    /\ urun[1].pc = "threw"
    /\ RemoveFailed(urun[1])
    /\ ~alreadyUnassigned(issueThread,
           buildUnassignMarker(urun[1].payload.comment.login))

\* Thread t is thread s with at most one comment added at its end.
ExtendsByAtMostOne(s, t) ==
    /\ Len(s) <= Len(t)
    /\ Len(t) <= Len(s) + 1
    /\ SubSeq(t, 1, Len(s)) = s

\* createComment calls of an invocation that resolved.
Posted(r) == { k \in 1..Len(r.calls) : r.calls[k].api = "createComment" /\ r.calls[k].ok }

\* Every step keeps every comment of every thread, with its body, and adds at
\* most one comment.
C15_Step ==
    /\ \A n \in PRNumbers : ExtendsByAtMostOne(prThread[n], prThread'[n])
    /\ ExtendsByAtMostOne(issueThread, issueThread')

\* No invocation has posted more than one comment.
C15_State ==
    \A p \in Procs :
        Cardinality(Posted(nrun[p])) <= 1 /\ Cardinality(Posted(urun[p])) <= 1

\* C15: the comment threads are append-only under both handlers: every
\* comment present before an invocation is present with the same body after
\* it, each invocation adds at most one comment, and a marker comment once
\* posted is present in every later state.
C15_AppendOnly == []C15_State /\ [][C15_Step]_vars

\* The notifier has posted its reminder behind the comments the thread held
\* before, which are still there.
C15_Witness ==
    /\ nrun[1].pc = "returned"
    /\ Posted(nrun[1]) # {}
    /\ \E n \in PRNumbers :
          LET t == prThread[n]
          IN  /\ Len(t) >= 2
              /\ t[1] \in UserPRComments
              /\ NotifierComments(t) = {Len(t)}

\* body.split(/\s/) without the empty pieces: the stretches of the text
\* between white space.
Pieces(body) ==
    { SubSeq(body, i, j) : <<i, j>> \in
        { ij \in (1..Len(body)) \X (1..Len(body)) :
            /\ ij[1] <= ij[2]
            /\ \A k \in ij[1]..ij[2] : ~IsSpace(body[k])
            /\ (ij[1] = 1 \/ IsSpace(body[ij[1] - 1]))
            /\ (ij[2] = Len(body) \/ IsSpace(body[ij[2] + 1])) } }

\* The body a settled or waiting run was given, and what the function said.
BodyGiven(r) == r.payload.comment.body
SaidYes(r) == r.pc = "paginate"

\* '/unassign' with no word character directly before or after it.
StandaloneByWordBoundary(body) ==
    /\ body # NullText
    /\ \E k \in 1..Len(body) :
          /\ ToLowerCase(body[k]) = "/unassign"
          /\ (k = 1 \/ IsWord(body[k - 1]) = FALSE)
          /\ (k = Len(body) \/ IsWord(body[k + 1]) = FALSE)

\* C16 (as the spec states it): commentRequestsUnassign(body) is true exactly
\* when body is a string holding '/unassign' (any case) delimited by word
\* boundaries, so that punctuation directly after it ('/unassign.') does not
\* stop it matching.
C16_WordBoundaryDelimited ==
    \A p \in Procs :
        urun[p].pc \in {"paginate", "returned"}
            => SaidYes(urun[p]) = StandaloneByWordBoundary(BodyGiven(urun[p]))

\* C16 (amended): commentRequestsUnassign(body) is true exactly when body is
\* a string one of whose white-space-separated pieces is '/unassign' in any
\* case: 'please /unassign me' and '/UNASSIGN' match, '/unassign.' and
\* '/unassignme' do not.
C16_WhitespaceDelimited ==
    \A p \in Procs :
        LET r == urun[p]
            b == BodyGiven(r)
        IN  r.pc \in {"paginate", "returned"} =>
              /\ SaidYes(r) =
                    (\E w \in Pieces(b) : Len(w) = 1 /\ ToLowerCase(w[1]) = "/unassign")
              /\ b = <<"please", " ", "/unassign", " ", "me">> => SaidYes(r)
              /\ b = <<"/UNASSIGN">> => SaidYes(r)
              /\ b = <<"/unassign", ".">> => ~SaidYes(r)
              /\ b = <<"/unassign", "me">> => ~SaidYes(r)

\* The function was given '/unassign.' and said no.
C16_Witness ==
    /\ urun[1].pc = "returned"
    /\ BodyGiven(urun[1]) = <<"/unassign", ".">>

\* C17 (as the spec states it): the issue_number the notifier passes to
\* listComments and createComment is the number of the PR that supplied
\* prData, also when PR_NUMBER and the payload's pull_request name different
\* PRs.
C17_PostsOnInspectedPR ==
    \A p \in Procs :
        LET r == nrun[p]
        IN  \A k \in 1..Len(r.calls) :
                r.calls[k].api \in {"listComments", "createComment"}
                    => r.calls[k].number = r.prData.number

\* The run listed the comments and returned at once.
ReturnedAfterScan(r) ==
    /\ r.pc = "returned"
    /\ r.calls # <<>>
    /\ r.calls[Len(r.calls)].api = "listComments"

\* The notifier run left through the 'already commented' exit of lines
\* 48-53: no other return follows the scan for a body without a link when
\* DRY_RUN is off.
TookAlreadyCommentedExit(r) ==
    ReturnedAfterScan(r) /\ ~BodyLinksIssue(r) /\ ~r.dryRun

\* The unassign run left through the 'already unassigned' exit of lines
\* 101-107, the only return after the scan.
TookAlreadyUnassignedExit(r) == ReturnedAfterScan(r)

\* C18 (as the spec states it): a handler takes its 'already done' exit only
\* because the automation itself acted earlier: the thread then holds a
\* marker comment written by the bot, and a comment of another user (or the
\* triggering comment) that quotes the marker does not suppress the action.
C18_ExitOnlyOnOwnMarker ==
    \A p \in Procs :
        /\ TookAlreadyCommentedExit(nrun[p])
              => NotifierComments(prThread[nrun[p].prNumber]) # {}
        /\ TookAlreadyUnassignedExit(urun[p])
              => Confirmations(issueThread, urun[p].payload.comment.login) # {}

\* No comment of the thread, by the bot or by anyone, holds the marker.
MarkerFree(thread) ==
    \A k \in 1..Len(thread) : ~BodyIncludes(thread[k].body, LINKBOT_MARKER)

\* A run with DRY_RUN on leaves every PR thread as it found it.
C19_DryRunStep ==
    \A p \in Procs :
        (nrun[p].dryRun /\ InFlight(nrun[p])) => prThread' = prThread

\* A run with DRY_RUN off on a PR of a non-bot author, with a body that
\* links no issue and a marker-free thread, goes from a resolved
\* listComments to createComment; createComment, resolving, adds exactly one
\* reminder to that thread and the run returns.
C19_PostStep ==
    \A p \in Procs :
        LET r == nrun[p]
            n == r.prNumber
        IN  /\ ( /\ r.pc = "listComments"
                 /\ ~r.dryRun
                 /\ ~BodyLinksIssue(r)
                 /\ MarkerFree(prThread[n])
                 /\ nrun'[p].pc # "threw" )
                    => nrun'[p].pc = "createComment" /\ prThread' = prThread
            /\ (r.pc = "createComment" /\ nrun'[p].pc = "returned")
                    => /\ Len(prThread'[n]) = Len(prThread[n]) + 1
                       /\ NotifierComments(prThread'[n]) =
                              NotifierComments(prThread[n]) \cup {Len(prThread[n]) + 1}
                       /\ \A m \in PRNumbers \ {n} : prThread'[m] = prThread[m]

\* C19: a dry run does not consume the idempotency flag: dry runs on a
\* non-bot PR whose body lacks the pattern and whose thread has no marker
\* leave the thread as it is, and the next run with DRY_RUN off, its API
\* calls succeeding, posts the reminder, exactly once.
C19_DryRunKeepsFlag == [][C19_DryRunStep /\ C19_PostStep]_vars

\* A dry run that would have posted has returned, and the thread still has
\* no marker.
C19_Witness ==
    /\ nrun[1].dryRun
    /\ ReturnedAfterScan(nrun[1])
    /\ ~BodyLinksIssue(nrun[1])
    /\ MarkerFree(prThread[nrun[1].prNumber])

=============================================================================
